---- MODULE Spec2Model ----
(***************************************************************************)
(* Model of the boardbreeze audio-splitter Lambda                          *)
(* (lambda/audio-splitter/index.js): the handler pipeline                  *)
(* analyze -> gate -> split -> upload -> cleanup -> result, and the        *)
(* stand-alone transcription dispatcher triggerTranscriptionJobs.          *)
(***************************************************************************)
EXTENDS Integers, Sequences, FiniteSets, TLC

(* ------------------------------ bounds --------------------------------- *)
\* a probed duration needs at most this many segments
MaxSegments == 3
\* generated source keys have at most this many characters
MaxKeyLen == 3
\* Date.now() takes the values 0..MaxClock
MaxClock == 1
\* handler invocations the model holds
NumInvocations == 2

(* ------------------------------- state --------------------------------- *)
VARIABLES
    clock,           \* the value Date.now() returns
    tmpFiles,        \* paths that exist under /tmp
    pendingUnlinks,  \* fs.unlink calls issued by analyzeAudioFile, not yet run
    s3objects,       \* objects written by s3.putObject
    inv,             \* per invocation of exports.handler: its locals and position
    disp             \* the run of triggerTranscriptionJobs

(* -------------------------- program constants -------------------------- *)
fourHoursInSeconds == 4 * 60 * 60
\* a segment length above the four hours of the gate
segmentDuration_long == 5 * 60 * 60

segmentDuration == (7 * 60 * 60) \div 2

Invocations == 1..NumInvocations

(* ------------------------- JavaScript numbers -------------------------- *)
\* a number is a finite value or NaN (parseFloat of a missing duration)
Num(v) == [nan |-> FALSE, v |-> v]
NaN == [nan |-> TRUE, v |-> 0]

\* a <= n, a < b, as JavaScript compares: any comparison with NaN is false
JsLe(a, n) == (~a.nan) /\ a.v <= n
JsLt(i, b) == (~b.nan) /\ i < b.v

Min(a, b) == IF a <= b THEN a ELSE b

\* Math.ceil(totalDuration / segmentDuration); NaN stays NaN
CeilDiv(d, l) == IF d <= 0 THEN -((-d) \div l) ELSE (d + l - 1) \div l

NumSegments(totalDuration) ==
    IF totalDuration.nan THEN NaN ELSE Num(CeilDiv(totalDuration.v, segmentDuration))

\* Math.min(segmentDuration, totalDuration - startTime)
SegmentLength_nominal(totalDuration, startTime) == segmentDuration

SegmentLength(totalDuration, startTime) ==
    Min(segmentDuration, totalDuration - startTime)

\* .duration(segmentDuration): the length asked of ffmpeg for every segment
RequestedDuration_remaining(totalDuration, startTime) == totalDuration - startTime

RequestedDuration(totalDuration, startTime) == segmentDuration

\* audioInfo.duration <= fourHoursInSeconds
WithinLimit_strict(duration) == (~duration.nan) /\ duration.v < fourHoursInSeconds

WithinLimit(duration) == JsLe(duration, fourHoursInSeconds)

(* ------------------------------ strings -------------------------------- *)
\* strings are sequences of one-character strings
KeyAlphabet == {"a", ".", "/"}

RECURSIVE StringsUpTo(_)
StringsUpTo(n) ==
    IF n = 0 THEN {<<>>}
    ELSE LET shorter == StringsUpTo(n - 1)
         IN  shorter \cup {Append(s, c) : s \in {t \in shorter : Len(t) = n - 1},
                                            c \in KeyAlphabet}

MeetingMp3 == <<"m","e","e","t","i","n","g",".","m","p","3">>
FolderMeetingRecordingMp3 ==
    <<"f","o","l","d","e","r","/","m","e","e","t","i","n","g",".",
      "r","e","c","o","r","d","i","n","g",".","m","p","3">>

SourceKeys == StringsUpTo(MaxKeyLen) \cup {MeetingMp3, FolderMeetingRecordingMp3}

DigitChar(n) == <<"0","1","2","3","4","5","6","7","8","9">>[n + 1]

\* Number.prototype.toString of a non-negative integer
RECURSIVE IndexToString(_)
IndexToString(n) == IF n < 10 THEN <<DigitChar(n)>>
               ELSE IndexToString(n \div 10) \o <<DigitChar(n % 10)>>

\* the places where /\.[^/]+$/ would match
ExtMatchAt_anyDot(s, p) ==
    /\ s[p] = "."
    /\ p < Len(s)
    /\ \A q \in (p + 1)..Len(s) : s[q] # "/"

\* the places where /\.[^/.]+$/ matches: a dot, then one or more characters
\* other than '/' and '.', then the end of the string
ExtMatchAt(s, p) ==
    /\ s[p] = "."
    /\ p < Len(s)
    /\ \A q \in (p + 1)..Len(s) : s[q] \notin {"/", "."}

\* String.prototype.replace(regex, ''): the leftmost match is removed
ReplaceExt(s, matches) ==
    IF matches = {} THEN s
    ELSE LET p == CHOOSE m \in matches : \A o \in matches : m <= o
         IN  SubSeq(s, 1, p - 1)

BaseKey(originalS3Key) ==
    ReplaceExt(originalS3Key,
               {p \in 1..Len(originalS3Key) : ExtMatchAt(originalS3Key, p)})

SegmentSuffix == <<"_","s","e","g","m","e","n","t","_">>
Mp3Ext == <<".","m","p","3">>

\* the first segment keeps the name of the source
SegmentKey_firstKeepsName(originalS3Key, index) ==
    IF index = 0 THEN originalS3Key
    ELSE BaseKey(originalS3Key) \o SegmentSuffix \o IndexToString(index) \o Mp3Ext

\* a key that carries Date.now(), as the temporary paths and job names do
SegmentKey_timestamped(originalS3Key, index) ==
    BaseKey(originalS3Key) \o SegmentSuffix \o IndexToString(index)
        \o <<"_">> \o IndexToString(clock) \o Mp3Ext

\* `${baseKey}_segment_${segment.index}.mp3`
SegmentKey(originalS3Key, index) ==
    BaseKey(originalS3Key) \o SegmentSuffix \o IndexToString(index) \o Mp3Ext

(* ------------------------------- inputs -------------------------------- *)
\* durations ffprobe may report, in seconds, around every boundary of the
\* gate and of the planner
Remainders == {0, 1, fourHoursInSeconds - segmentDuration,
               fourHoursInSeconds - segmentDuration + 1}

ProbedDurations ==
    {k * segmentDuration + r : k \in 0..(MaxSegments - 1), r \in Remainders}
        \cup {MaxSegments * segmentDuration}

ProbedNumbers == {Num(d) : d \in ProbedDurations} \cup {NaN}

BucketNames == {"bucket", ""}

\* the event object of an invocation; null, or a missing / empty field
Events == [isNull : {FALSE}, s3Key : SourceKeys, bucketName : BucketNames]
            \cup {[isNull |-> TRUE, s3Key |-> <<>>, bucketName |-> ""]}

(* ---------------------------- temporary files -------------------------- *)
\* `/tmp/input_${Date.now()}.mp3` and `/tmp/segment_${i}_${Date.now()}.mp3`
InputPath(t) == [kind |-> "input", index |-> 0, t |-> t]
SegmentPath(i, t) == [kind |-> "segment", index |-> i, t |-> t]

vars == <<clock, tmpFiles, pendingUnlinks, s3objects, inv, disp>>

NoResult ==
    [statusCode |-> 0, status |-> "none", duration |-> NaN, segments |-> 0,
     segmentUrls |-> <<>>, message |-> ""]

\* the locals of an invocation that has not started
Locals(pc) ==
    [pc |-> pc,
     event |-> [isNull |-> TRUE, s3Key |-> <<>>, bucketName |-> ""],
     audioInfo |-> NaN,
     analyzePath |-> InputPath(0),
     splitPath |-> InputPath(0),
     numSegments |-> NaN,
     i |-> 0,
     segments |-> <<>>,
     upIdx |-> 1,
     segmentUrls |-> <<>>,
     cleanIdx |-> 1,
     result |-> NoResult,
     created |-> {},
     transcodeCalls |-> <<>>,
     uploads |-> <<>>]

NoDispatch ==
    [pc |-> "off", segmentUrls |-> <<>>, pos |-> 1, transcriptionJobs |-> <<>>,
     requests |-> <<>>]

\* one invocation of the handler; the other slots stay unused
Init ==
    /\ clock = 0
    /\ tmpFiles = {}
    /\ pendingUnlinks = {}
    /\ s3objects = {}
    /\ inv = [h \in Invocations |-> IF h = 1 THEN Locals("idle") ELSE Locals("off")]
    /\ disp = NoDispatch

(* ------------------------------ handler -------------------------------- *)
\* the catch block of the handler: statusCode 500, status 'error'
ErrorResult(cause) ==
    [NoResult EXCEPT !.statusCode = 500, !.status = "error", !.message = cause]

HandlerCatch_rethrow(r, cause) == [r EXCEPT !.pc = "thrown"]

HandlerCatch(r, cause) == [r EXCEPT !.pc = "done", !.result = ErrorResult(cause)]

\* the handler is entered with an event; a null event or a missing field throws
HandlerStart(h) ==
    /\ inv[h].pc = "idle"
    /\ \E event \in Events :
         LET r == [inv[h] EXCEPT !.event = event]
         IN  inv' = [inv EXCEPT ![h] =
                 IF event.isNull
                 THEN HandlerCatch(r, "TypeError")
                 ELSE IF event.s3Key = <<>> \/ event.bucketName = ""
                 THEN HandlerCatch(r, "Missing required parameters")
                 ELSE [r EXCEPT !.pc = "analyze_get"]]
    /\ UNCHANGED <<clock, tmpFiles, pendingUnlinks, s3objects, disp>>

\* analyzeAudioFile: names the temporary copy and downloads the object
AnalyzeGetObject(h) ==
    /\ inv[h].pc = "analyze_get"
    /\ \E ok \in BOOLEAN :
         LET r == [inv[h] EXCEPT !.analyzePath = InputPath(clock)]
         IN  inv' = [inv EXCEPT ![h] =
                 IF ok THEN [r EXCEPT !.pc = "analyze_write"]
                 ELSE HandlerCatch(r, "getObject")]
    /\ UNCHANGED <<clock, tmpFiles, pendingUnlinks, s3objects, disp>>

\* analyzeAudioFile: writeFile(tempInputPath, s3Object.Body)
AnalyzeWriteFile(h) ==
    /\ inv[h].pc = "analyze_write"
    /\ \E ok \in BOOLEAN :
         LET r == inv[h]
         IN  IF ok
             THEN /\ tmpFiles' = tmpFiles \cup {r.analyzePath}
                  /\ inv' = [inv EXCEPT ![h] =
                        [r EXCEPT !.pc = "analyze_probe",
                                  !.created = @ \cup {r.analyzePath}]]
             ELSE /\ tmpFiles' = tmpFiles
                  /\ inv' = [inv EXCEPT ![h] = HandlerCatch(r, "writeFile")]
    /\ UNCHANGED <<clock, pendingUnlinks, s3objects, disp>>

\* analyzeAudioFile: the ffprobe callback. On an error it rejects and leaves
\* the copy; otherwise it issues fs.unlink without waiting and resolves
AnalyzeProbe(h) ==
    /\ inv[h].pc = "analyze_probe"
    /\ \E err \in BOOLEAN, duration \in ProbedNumbers :
         LET r == inv[h]
         IN  IF err \/ r.analyzePath \notin tmpFiles
             THEN /\ pendingUnlinks' = pendingUnlinks
                  /\ inv' = [inv EXCEPT ![h] = HandlerCatch(r, "ffprobe")]
             ELSE /\ pendingUnlinks' = pendingUnlinks \cup {r.analyzePath}
                  /\ inv' = [inv EXCEPT ![h] =
                        [r EXCEPT !.pc = "gate", !.audioInfo = duration]]
    /\ UNCHANGED <<clock, tmpFiles, s3objects, disp>>

\* the fs.unlink issued by the ffprobe callback runs; a failure is only logged
UnlinkCallback ==
    /\ \E p \in pendingUnlinks :
         /\ pendingUnlinks' = pendingUnlinks \ {p}
         /\ tmpFiles' = tmpFiles \ {p}
    /\ UNCHANGED <<clock, s3objects, inv, disp>>

NoSplitResult(duration) ==
    [NoResult EXCEPT !.statusCode = 200, !.status = "no-split-needed",
                     !.duration = duration]

\* the duration gate of the handler
Gate(h) ==
    /\ inv[h].pc = "gate"
    /\ LET r == inv[h]
       IN  inv' = [inv EXCEPT ![h] =
               IF WithinLimit(r.audioInfo)
               THEN [r EXCEPT !.pc = "done", !.result = NoSplitResult(r.audioInfo)]
               ELSE [r EXCEPT !.pc = "split_get"]]
    /\ UNCHANGED <<clock, tmpFiles, pendingUnlinks, s3objects, disp>>

(* --------------------------- splitAudioFile ---------------------------- *)
\* names the second temporary copy and downloads the object again
SplitGetObject(h) ==
    /\ inv[h].pc = "split_get"
    /\ \E ok \in BOOLEAN :
         LET r == [inv[h] EXCEPT !.splitPath = InputPath(clock)]
         IN  inv' = [inv EXCEPT ![h] =
                 IF ok THEN [r EXCEPT !.pc = "split_write"]
                 ELSE HandlerCatch(r, "getObject")]
    /\ UNCHANGED <<clock, tmpFiles, pendingUnlinks, s3objects, disp>>

\* writeFile(tempInputPath, s3Object.Body), then numSegments and i = 0
SplitWriteFile(h) ==
    /\ inv[h].pc = "split_write"
    /\ \E ok \in BOOLEAN :
         LET r == inv[h]
         IN  IF ok
             THEN /\ tmpFiles' = tmpFiles \cup {r.splitPath}
                  /\ inv' = [inv EXCEPT ![h] =
                        [r EXCEPT !.pc = "split_loop",
                                  !.created = @ \cup {r.splitPath},
                                  !.numSegments = NumSegments(r.audioInfo),
                                  !.i = 0]]
             ELSE /\ tmpFiles' = tmpFiles
                  /\ inv' = [inv EXCEPT ![h] = HandlerCatch(r, "writeFile")]
    /\ UNCHANGED <<clock, pendingUnlinks, s3objects, disp>>

\* the 'error' event of ffmpeg rejects, and the rejection leaves the loop and
\* splitAudioFile
TranscodeFailed_retry(r, cause) == r

\* the failure is logged and the loop goes on with the next segment
TranscodeFailed_skip(r, cause) == [r EXCEPT !.i = @ + 1]

\* the 'error' event does not reject: the awaited promise never settles
TranscodeFailed_hang(r, cause) == [r EXCEPT !.pc = "hung"]

TranscodeFailed(r, cause) == HandlerCatch(r, cause)

\* one iteration of the segment loop: ffmpeg is run on the copy for the
\* window of segment i, and the segment is recorded when it ends
SplitSegment(h) ==
    /\ inv[h].pc = "split_loop"
    /\ JsLt(inv[h].i, inv[h].numSegments)
    /\ \E ok \in BOOLEAN, partial \in BOOLEAN :
         LET r == inv[h]
             startTime == r.i * segmentDuration
             segmentPath == SegmentPath(r.i, clock)
             ended == ok /\ r.splitPath \in tmpFiles
             call == [index |-> r.i, input |-> r.splitPath, seekInput |-> startTime,
                      duration |-> RequestedDuration(r.audioInfo.v, startTime),
                      output |-> segmentPath, ok |-> ended]
             called == [r EXCEPT !.transcodeCalls = Append(@, call)]
         IN  IF ended
             THEN /\ tmpFiles' = tmpFiles \cup {segmentPath}
                  /\ inv' = [inv EXCEPT ![h] =
                        [called EXCEPT
                            !.created = @ \cup {segmentPath},
                            !.segments = Append(@,
                                [index |-> r.i, path |-> segmentPath,
                                 startTime |-> startTime,
                                 duration |-> SegmentLength(r.audioInfo.v, startTime)]),
                            !.i = @ + 1]]
             ELSE \* ffmpeg may leave an incomplete output file behind
                  /\ tmpFiles' = IF partial THEN tmpFiles \cup {segmentPath}
                                 ELSE tmpFiles
                  /\ inv' = [inv EXCEPT ![h] =
                        TranscodeFailed(
                            [called EXCEPT !.created =
                                IF partial THEN @ \cup {segmentPath} ELSE @],
                            "ffmpeg")]
    /\ UNCHANGED <<clock, pendingUnlinks, s3objects, disp>>

\* the loop is over: unlink(tempInputPath) and return segments
SplitUnlink(h) ==
    /\ inv[h].pc = "split_loop"
    /\ ~JsLt(inv[h].i, inv[h].numSegments)
    /\ LET r == inv[h]
       IN  IF r.splitPath \in tmpFiles
           THEN /\ tmpFiles' = tmpFiles \ {r.splitPath}
                /\ inv' = [inv EXCEPT ![h] = [r EXCEPT !.pc = "upload", !.upIdx = 1]]
           ELSE /\ tmpFiles' = tmpFiles
                /\ inv' = [inv EXCEPT ![h] = HandlerCatch(r, "unlink")]
    /\ UNCHANGED <<clock, pendingUnlinks, s3objects, disp>>

(* --------------------------- uploadSegments ---------------------------- *)
\* the catch of the upload loop logs and throws the error again
UploadFailed_continue(r, cause) == [r EXCEPT !.upIdx = @ + 1]

\* the entry is pushed before the put is awaited, so it stays after a failure
UploadFailed_pushed(r, cause) ==
    LET u == r.uploads[Len(r.uploads)]
    IN  [HandlerCatch(r, cause) EXCEPT
            !.segmentUrls = Append(@,
                [url |-> [bucket |-> u.Bucket, key |-> u.Key], key |-> u.Key,
                 index |-> u.index, startTime |-> u.startTime,
                 duration |-> u.duration])]

UploadFailed(r, cause) == HandlerCatch(r, cause)

\* `s3://${bucketName}/${segmentKey}`
SegmentUrl(bucketName, segmentKey) == [bucket |-> bucketName, key |-> segmentKey]

\* one iteration of the upload loop: readFile, putObject, push
UploadSegment(h) ==
    /\ inv[h].pc = "upload"
    /\ inv[h].upIdx <= Len(inv[h].segments)
    /\ \E outcome \in {"ok", "readFile", "putObject"} :
         LET r == inv[h]
             segment == r.segments[r.upIdx]
             segmentKey == SegmentKey(r.event.s3Key, segment.index)
             happened == IF segment.path \notin tmpFiles THEN "readFile" ELSE outcome
             \* the attempt on this segment: the key, the metadata of the put,
             \* and whether readFile or putObject threw
             upload == [Bucket |-> r.event.bucketName, Key |-> segmentKey,
                        index |-> segment.index, startTime |-> segment.startTime,
                        duration |-> segment.duration, outcome |-> happened]
             attempted == [r EXCEPT !.uploads = Append(@, upload)]
         IN  IF happened # "ok"
             THEN /\ s3objects' = s3objects
                  /\ inv' = [inv EXCEPT ![h] = UploadFailed(attempted, happened)]
             ELSE /\ s3objects' = s3objects \cup
                        {[Bucket |-> r.event.bucketName, Key |-> segmentKey]}
                  /\ inv' = [inv EXCEPT ![h] =
                        [attempted EXCEPT
                            !.segmentUrls = Append(@,
                                [url |-> SegmentUrl(r.event.bucketName, segmentKey),
                                 key |-> segmentKey, index |-> segment.index,
                                 startTime |-> segment.startTime,
                                 duration |-> segment.duration]),
                            !.upIdx = @ + 1]]
    /\ UNCHANGED <<clock, tmpFiles, pendingUnlinks, disp>>

\* the upload loop is over: uploadSegments returns segmentUrls
UploadReturn(h) ==
    /\ inv[h].pc = "upload"
    /\ inv[h].upIdx > Len(inv[h].segments)
    /\ inv' = [inv EXCEPT ![h] = [@ EXCEPT !.pc = "cleanup", !.cleanIdx = 1]]
    /\ UNCHANGED <<clock, tmpFiles, pendingUnlinks, s3objects, disp>>

(* -------------------------- cleanupTempFiles --------------------------- *)
\* one iteration: unlink(segment.path); a failure is only logged
CleanupSegment(h) ==
    /\ inv[h].pc = "cleanup"
    /\ inv[h].cleanIdx <= Len(inv[h].segments)
    /\ tmpFiles' = tmpFiles \ {inv[h].segments[inv[h].cleanIdx].path}
    /\ inv' = [inv EXCEPT ![h] = [@ EXCEPT !.cleanIdx = @ + 1]]
    /\ UNCHANGED <<clock, pendingUnlinks, s3objects, disp>>

SplitCompleteResult(segmentUrls, duration) ==
    [NoResult EXCEPT !.statusCode = 200, !.status = "split-complete",
                     !.segments = Len(segmentUrls), !.segmentUrls = segmentUrls,
                     !.duration = duration]

\* the handler of the README, which also starts triggerTranscriptionJobs
HandlerReturn_dispatch(h) ==
    /\ inv[h].pc = "cleanup"
    /\ inv[h].cleanIdx > Len(inv[h].segments)
    /\ inv' = [inv EXCEPT ![h] =
          [@ EXCEPT !.pc = "done",
                    !.result = SplitCompleteResult(inv[h].segmentUrls, inv[h].audioInfo)]]
    /\ disp' = [disp EXCEPT !.pc = "loop", !.segmentUrls = inv[h].segmentUrls]
    /\ UNCHANGED <<clock, tmpFiles, pendingUnlinks, s3objects>>

\* the cleanup loop is over: the handler returns split-complete
HandlerReturn(h) ==
    /\ inv[h].pc = "cleanup"
    /\ inv[h].cleanIdx > Len(inv[h].segments)
    /\ inv' = [inv EXCEPT ![h] =
          [@ EXCEPT !.pc = "done",
                    !.result = SplitCompleteResult(inv[h].segmentUrls, inv[h].audioInfo)]]
    /\ UNCHANGED <<clock, tmpFiles, pendingUnlinks, s3objects, disp>>

\* time passes
Tick ==
    /\ clock < MaxClock
    /\ clock' = clock + 1
    /\ UNCHANGED <<tmpFiles, pendingUnlinks, s3objects, inv, disp>>

Handler(h) ==
    \/ HandlerStart(h)
    \/ AnalyzeGetObject(h)
    \/ AnalyzeWriteFile(h)
    \/ AnalyzeProbe(h)
    \/ Gate(h)
    \/ SplitGetObject(h)
    \/ SplitWriteFile(h)
    \/ SplitSegment(h)
    \/ SplitUnlink(h)
    \/ UploadSegment(h)
    \/ UploadReturn(h)
    \/ CleanupSegment(h)
    \/ HandlerReturn(h)

Next == (\E h \in Invocations : Handler(h)) \/ UnlinkCallback \/ Tick

Spec == Init /\ [][Next]_vars

(* ---------------------- splitAudioFile on its own ----------------------- *)
\* splitAudioFile(s3Key, bucketName, totalDuration) called with any positive
\* total duration
InitSplit ==
    /\ clock = 0
    /\ tmpFiles = {}
    /\ pendingUnlinks = {}
    /\ s3objects = {}
    /\ \E totalDuration \in {d \in ProbedDurations : d > 0} :
         inv = [h \in Invocations |->
                  IF h = 1
                  THEN [Locals("split_get") EXCEPT
                          !.event = [isNull |-> FALSE, s3Key |-> MeetingMp3,
                                     bucketName |-> "bucket"],
                          !.audioInfo = Num(totalDuration)]
                  ELSE Locals("off")]
    /\ disp = NoDispatch

NextSplit ==
    \/ \E h \in Invocations :
         \/ SplitGetObject(h)
         \/ SplitWriteFile(h)
         \/ SplitSegment(h)
         \/ SplitUnlink(h)
    \/ Tick

SpecSplit == InitSplit /\ [][NextSplit]_vars

(* ---------------------- triggerTranscriptionJobs ----------------------- *)
\* `boardbreeze-segment-${segment.index}-${Date.now()}`
JobName(index, t) == [index |-> index, t |-> t]

\* the catch of the dispatch loop logs the error and goes on with the next
\* segment
DispatchCatch_rethrow(d) == [d EXCEPT !.pc = "thrown"]

DispatchCatch(d) == [d EXCEPT !.pos = @ + 1]

\* one iteration of the dispatch loop: the job name, startTranscriptionJob,
\* and the push of the started job
DispatchSegment ==
    /\ disp.pc = "loop"
    /\ disp.pos <= Len(disp.segmentUrls)
    /\ \E ok \in BOOLEAN :
         LET segment == disp.segmentUrls[disp.pos]
             jobName == JobName(segment.index, clock)
             request == [TranscriptionJobName |-> jobName,
                         MediaFileUri |-> segment.url,
                         OutputBucketName |-> segment.url.bucket,
                         index |-> segment.index, ok |-> ok]
             requested == [disp EXCEPT !.requests = Append(@, request)]
         IN  disp' = IF ok
                     THEN [requested EXCEPT
                             !.transcriptionJobs = Append(@,
                                 [jobName |-> jobName, segmentIndex |-> segment.index,
                                  status |-> "STARTED"]),
                             !.pos = @ + 1]
                     ELSE DispatchCatch(requested)
    /\ UNCHANGED <<clock, tmpFiles, pendingUnlinks, s3objects, inv>>

\* the dispatch loop is over: return transcriptionJobs
DispatchReturn ==
    /\ disp.pc = "loop"
    /\ disp.pos > Len(disp.segmentUrls)
    /\ disp' = [disp EXCEPT !.pc = "returned"]
    /\ UNCHANGED <<clock, tmpFiles, pendingUnlinks, s3objects, inv>>

\* the list uploadSegments returns for a source key and the first n segments
\* of a total duration
RECURSIVE PublishedSegments(_, _, _)
PublishedSegments(s3Key, totalDuration, n) ==
    IF n = 0 THEN <<>>
    ELSE LET index == n - 1
             segmentKey == SegmentKey(s3Key, index)
         IN  Append(PublishedSegments(s3Key, totalDuration, n - 1),
                    [url |-> SegmentUrl("bucket", segmentKey), key |-> segmentKey,
                     index |-> index, startTime |-> index * segmentDuration,
                     duration |-> SegmentLength(totalDuration, index * segmentDuration)])

\* triggerTranscriptionJobs(segmentUrls) called with the segment list of a split
InitDispatch ==
    /\ clock = 0
    /\ tmpFiles = {}
    /\ pendingUnlinks = {}
    /\ s3objects = {}
    /\ inv = [h \in Invocations |-> Locals("off")]
    /\ \E s3Key \in {MeetingMp3, FolderMeetingRecordingMp3},
          totalDuration \in {d \in ProbedDurations : d > fourHoursInSeconds} :
         disp = [NoDispatch EXCEPT
                   !.pc = "loop",
                   !.segmentUrls = PublishedSegments(s3Key, totalDuration,
                                       CeilDiv(totalDuration, segmentDuration))]

NextDispatch == DispatchSegment \/ DispatchReturn \/ Tick

SpecDispatch == InitDispatch /\ [][NextDispatch]_vars

(* ------------------------------- claims -------------------------------- *)
RECURSIVE SumDurations(_)
SumDurations(segments) ==
    IF segments = <<>> THEN 0
    ELSE segments[1].duration + SumDurations(Tail(segments))

\* the recorded segments are numbered from 0 and tile the source from 0
Contiguous(segments) ==
    \A k \in 1..Len(segments) :
        /\ segments[k].index = k - 1
        /\ segments[k].duration > 0
        /\ k = 1 => segments[k].startTime = 0
        /\ k > 1 => segments[k].startTime =
                        segments[k - 1].startTime + segments[k - 1].duration

\* C1: for every total duration d > 0 the segments splitAudioFile records are
\* numbered 0..N-1 in order with N = ceil(d / 12600), start at 0, follow each
\* other without gap or overlap, have positive durations, and their durations
\* sum to d; d = 25200 gives [{0, 0, 12600}, {1, 12600, 12600}].
C1_PlanCoversDuration ==
    \A h \in Invocations :
        LET r == inv[h]
            d == r.audioInfo.v
            plan == [k \in 1..Len(r.segments) |->
                        <<r.segments[k].index, r.segments[k].startTime,
                          r.segments[k].duration>>]
        IN  /\ Contiguous(r.segments)
            /\ r.pc = "upload" =>
                 /\ (Len(r.segments) - 1) * 12600 < d
                 /\ d <= Len(r.segments) * 12600
                 /\ SumDurations(r.segments) = d
                 /\ d = 25200 => plan = <<(<<0, 0, 12600>>), (<<1, 12600, 12600>>)>>

\* splitAudioFile has returned three segments, the last one shorter
C1_Witness ==
    \E h \in Invocations :
        /\ inv[h].pc = "upload"
        /\ Len(inv[h].segments) = 3
        /\ inv[h].segments[3].duration < 12600

\* C2: for every probed duration d <= 14400, 14400 included, the handler
\* returns no-split-needed carrying d and never splits, transcodes or uploads:
\* no segment file is created and no object is written by that invocation.
C2_NoSplitAtOrBelowCeiling ==
    \A h \in Invocations :
        LET r == inv[h]
        IN  ((~r.audioInfo.nan) /\ r.audioInfo.v <= 14400) =>
                /\ r.pc \in {"gate", "done"}
                /\ r.pc = "done" =>
                     /\ r.result.status = "no-split-needed"
                     /\ r.result.duration = r.audioInfo
                /\ r.transcodeCalls = <<>>
                /\ r.segments = <<>>
                /\ r.uploads = <<>>
                /\ \A p \in r.created : p.kind # "segment"

\* a file of exactly 14400 seconds has been answered with no-split-needed
C2_Witness ==
    \E h \in Invocations :
        /\ inv[h].pc = "done"
        /\ inv[h].audioInfo = Num(14400)
        /\ inv[h].result.status = "no-split-needed"

\* C3: if the upload of segment k fails after segments 0..k-1 were uploaded,
\* the handler returns the error result (never split-complete, no partial
\* status), no later segment is attempted, and the objects written for
\* segments 0..k-1 stay in storage.
C3_UploadFailureIsFatal ==
    \A h \in Invocations :
        LET r == inv[h]
        IN  \A k \in 1..Len(r.uploads) :
                r.uploads[k].outcome # "ok" =>
                    /\ k = Len(r.uploads)
                    /\ r.pc = "done"
                    /\ r.result.status = "error"
                    /\ r.result.statusCode = 500
                    /\ \A j \in 1..(k - 1) :
                         /\ r.uploads[j].outcome = "ok"
                         /\ r.uploads[j].index = j - 1
                         /\ [Bucket |-> r.uploads[j].Bucket, Key |-> r.uploads[j].Key]
                                \in s3objects

\* of three segments the first was uploaded and the upload of the second failed
C3_Witness ==
    \E h \in Invocations :
        /\ Len(inv[h].segments) = 3
        /\ Len(inv[h].uploads) = 2
        /\ inv[h].uploads[1].outcome = "ok"
        /\ inv[h].uploads[2].outcome = "putObject"
        /\ inv[h].pc = "done"

\* C4: on every exit path of an invocation every temporary file it created,
\* the downloaded copies and the segment files, has been deleted when the
\* handler returns.
C4_NoTempFileLeftAtReturn ==
    \A h \in Invocations :
        inv[h].pc = "done" => inv[h].created \cap tmpFiles = {}

\* C5: every invocation, for any event and any failure of the download,
\* probe, transcode or upload steps, returns exactly one structured result
\* whose status is 'no-split-needed', 'split-complete' or 'error'; no
\* exception escapes the handler.
C5_AlwaysOneStructuredResult ==
    /\ [](\A h \in Invocations :
            /\ inv[h].pc # "thrown"
            /\ inv[h].pc = "done" =>
                 inv[h].result.status \in {"no-split-needed", "split-complete", "error"}
            /\ inv[h].pc # "done" => inv[h].result = NoResult)
    /\ [][\A h \in Invocations :
            inv[h].pc = "done" => inv'[h] = inv[h]]_vars

\* the transcode of a segment failed and the handler answered with 'error'
C5_Witness ==
    \E h \in Invocations :
        /\ inv[h].pc = "done"
        /\ inv[h].result.status = "error"
        /\ inv[h].result.message = "ffmpeg"

\* C6: dispatching n published segments returns exactly n job entries, one
\* per segment: a segment whose submission failed appears with status
\* SubmitFailed and the others appear as submitted.
C6_OneJobEntryPerSegment ==
    disp.pc = "returned" =>
        /\ Len(disp.transcriptionJobs) = Len(disp.segmentUrls)
        /\ \A k \in 1..Len(disp.transcriptionJobs) :
             /\ disp.transcriptionJobs[k].segmentIndex = disp.segmentUrls[k].index
             /\ disp.requests[k].ok => disp.transcriptionJobs[k].status = "STARTED"
             /\ ~disp.requests[k].ok =>
                    disp.transcriptionJobs[k].status = "SubmitFailed"

\* C7: triggerTranscriptionJobs attempts a start-transcription request for
\* every segment of its input, whichever earlier submissions failed, and
\* returns normally however many submissions fail.
C7_EverySegmentIsSubmitted ==
    /\ disp.pc # "thrown"
    /\ Len(disp.requests) = disp.pos - 1
    /\ \A k \in 1..Len(disp.requests) :
         /\ k <= Len(disp.segmentUrls)
         /\ disp.requests[k].index = disp.segmentUrls[k].index
         /\ disp.requests[k].MediaFileUri = disp.segmentUrls[k].url
    /\ disp.pc = "returned" => Len(disp.requests) = Len(disp.segmentUrls)

\* the dispatch of three segments returned although the first two submissions
\* failed
C7_Witness ==
    /\ disp.pc = "returned"
    /\ Len(disp.segmentUrls) = 3
    /\ Len(disp.requests) = 3
    /\ ~disp.requests[1].ok
    /\ ~disp.requests[2].ok

\* C8: when the transcode of segment i fails it is not retried (at most one
\* transcode per segment index and invocation), no transcode of a later
\* segment is started, and the handler returns the error result.
C8_TranscodeFailureIsFatal ==
    \A h \in Invocations :
        LET r == inv[h]
        IN  \A k \in 1..Len(r.transcodeCalls) :
                /\ \A j \in 1..Len(r.transcodeCalls) :
                     r.transcodeCalls[j].index = r.transcodeCalls[k].index => j = k
                /\ ~r.transcodeCalls[k].ok =>
                     /\ k = Len(r.transcodeCalls)
                     /\ r.pc = "done"
                     /\ r.result.status = "error"

\* of three segments the first was transcoded and the transcode of the second
\* failed
C8_Witness ==
    \E h \in Invocations :
        /\ inv[h].numSegments = Num(3)
        /\ Len(inv[h].transcodeCalls) = 2
        /\ inv[h].transcodeCalls[1].ok
        /\ ~inv[h].transcodeCalls[2].ok
        /\ inv[h].pc = "done"

\* C9: for every segment window the range the transcoder is asked to extract
\* is exactly [startSeconds, startSeconds + lengthSeconds): the requested
\* duration equals the recorded length, also for a shorter last segment.
C9_RequestedRangeIsWindow ==
    \A h \in Invocations :
        \A k \in 1..Len(inv[h].segments) :
            /\ inv[h].transcodeCalls[k].seekInput = inv[h].segments[k].startTime
            /\ inv[h].transcodeCalls[k].duration = inv[h].segments[k].duration

\* C9, amended: the transcoder is asked to start at startSeconds of the window
\* and to extract 12600 seconds for every segment; the recorded length is the
\* part of that range inside the source, min(12600, d - startSeconds), so the
\* two agree unless the segment is a shorter last one, whose requested range
\* runs past the end of the source.
C9_RequestedRangeCoversWindow ==
    \A h \in Invocations :
        LET r == inv[h]
            d == r.audioInfo.v
        IN  \A k \in 1..Len(r.segments) :
                LET call == r.transcodeCalls[k]
                    seg == r.segments[k]
                IN  /\ call.index = seg.index
                    /\ call.seekInput = seg.startTime
                    /\ call.duration = 12600
                    /\ seg.duration = Min(call.duration, d - seg.startTime)
                    /\ seg.duration # call.duration =>
                         /\ seg.duration < call.duration
                         /\ seg.startTime + seg.duration = d
                         /\ seg.index = r.numSegments.v - 1

\* a shorter last segment was transcoded and recorded
C9_Witness ==
    \E h \in Invocations :
        \E k \in 1..Len(inv[h].segments) :
            /\ inv[h].transcodeCalls[k].ok
            /\ inv[h].segments[k].duration < 12600

LastDot(s) ==
    IF \E p \in 1..Len(s) : s[p] = "."
    THEN CHOOSE p \in 1..Len(s) : s[p] = "." /\ \A q \in (p + 1)..Len(s) : s[q] # "."
    ELSE 0

\* the key ends in a '.xxx' that holds no '/' and no '.'
HasExtension(s) ==
    /\ LastDot(s) > 0
    /\ LastDot(s) < Len(s)
    /\ \A q \in (LastDot(s) + 1)..Len(s) : s[q] # "/"

WithoutExtension(s) == IF HasExtension(s) THEN SubSeq(s, 1, LastDot(s) - 1) ELSE s

MeetingSegment0 ==
    <<"m","e","e","t","i","n","g","_","s","e","g","m","e","n","t","_","0",
      ".","m","p","3">>
FolderMeetingRecordingSegment2 ==
    <<"f","o","l","d","e","r","/","m","e","e","t","i","n","g",".",
      "r","e","c","o","r","d","i","n","g","_","s","e","g","m","e","n","t","_","2",
      ".","m","p","3">>

\* C10: the segment key is the source key without its last extension (a final
\* '.xxx' holding no '/' or '.'), followed by '_segment_{index}' and '.mp3':
\* ('meeting.mp3', 0) gives 'meeting_segment_0.mp3' and
\* ('folder/meeting.recording.mp3', 2) gives
\* 'folder/meeting.recording_segment_2.mp3'; other dots are left untouched.
C10_SegmentKeyDerivation ==
    \A h \in Invocations :
        LET r == inv[h]
            s3Key == r.event.s3Key
        IN  \A k \in 1..Len(r.uploads) :
                LET u == r.uploads[k]
                IN  /\ u.Key = WithoutExtension(s3Key)
                                \o <<"_","s","e","g","m","e","n","t","_">>
                                \o IndexToString(u.index) \o <<".","m","p","3">>
                    /\ (s3Key = MeetingMp3 /\ u.index = 0) => u.Key = MeetingSegment0
                    /\ (s3Key = FolderMeetingRecordingMp3 /\ u.index = 2) =>
                            u.Key = FolderMeetingRecordingSegment2

\* segment 2 of 'folder/meeting.recording.mp3' was uploaded
C10_Witness ==
    \E h \in Invocations :
        /\ inv[h].event.s3Key = FolderMeetingRecordingMp3
        /\ Len(inv[h].uploads) = 3
        /\ inv[h].uploads[3].index = 2
        /\ inv[h].uploads[3].outcome = "ok"

(* ------------------------- two invocations ------------------------------ *)
\* durations probed in the runs of two invocations: at the ceiling, and two
\* that need a split
PairDurations == {fourHoursInSeconds, fourHoursInSeconds + 1, 2 * segmentDuration}

PairKeys == {MeetingMp3, FolderMeetingRecordingMp3}

\* two invocations of the handler in one process, each past its analysis (the
\* probe has resolved and its temporary copy is gone); they run one after the
\* other or interleaved at their awaits
InitPair ==
    /\ clock = 0
    /\ tmpFiles = {}
    /\ pendingUnlinks = {}
    /\ s3objects = {}
    /\ \E key1 \in PairKeys, key2 \in PairKeys,
          d1 \in PairDurations, d2 \in PairDurations :
         inv = [h \in Invocations |->
                  IF h \in {1, 2}
                  THEN [Locals("gate") EXCEPT
                          !.event = [isNull |-> FALSE,
                                     s3Key |-> IF h = 1 THEN key1 ELSE key2,
                                     bucketName |-> "bucket"],
                          !.audioInfo = Num(IF h = 1 THEN d1 ELSE d2)]
                  ELSE Locals("off")]
    /\ disp = NoDispatch

NextPair ==
    \/ \E h \in Invocations :
         \/ Gate(h)
         \/ SplitGetObject(h)
         \/ SplitWriteFile(h)
         \/ SplitSegment(h)
         \/ SplitUnlink(h)
         \/ UploadSegment(h)
         \/ UploadReturn(h)
         \/ CleanupSegment(h)
         \/ HandlerReturn(h)
    \/ Tick

SpecPair == InitPair /\ [][NextPair]_vars

\* the keys an invocation has written to storage
KeysWritten(r) ==
    {r.uploads[k].Key : k \in {j \in 1..Len(r.uploads) : r.uploads[j].outcome = "ok"}}

\* C11: running the pipeline twice on the same source key with the same probed
\* duration writes to exactly the same set of segment keys, so storage holds
\* the same set of segment objects after the second run as after the first.
C11_RepeatedRunSameKeys ==
    \A g \in Invocations : \A h \in Invocations :
        ( /\ g # h
          /\ inv[g].pc = "done" /\ inv[g].result.status = "split-complete"
          /\ inv[h].pc = "done" /\ inv[h].result.status = "split-complete"
          /\ inv[g].event = inv[h].event
          /\ inv[g].audioInfo = inv[h].audioInfo ) =>
            /\ KeysWritten(inv[g]) = KeysWritten(inv[h])
            /\ Cardinality(KeysWritten(inv[h])) = inv[h].result.segments
            /\ {o.Key : o \in {x \in s3objects : x.Bucket = inv[g].event.bucketName}}
                    = KeysWritten(inv[g])

\* two runs on the same key and duration have both ended in split-complete,
\* the second one having started its uploads at a later clock value
C11_Witness ==
    /\ inv[1].pc = "done" /\ inv[1].result.status = "split-complete"
    /\ inv[2].pc = "done" /\ inv[2].result.status = "split-complete"
    /\ inv[1].event = inv[2].event
    /\ inv[1].audioInfo = inv[2].audioInfo
    /\ inv[1].result.segments = 2
    /\ inv[1].segments[1].path.t < inv[2].segments[1].path.t

\* an invocation has written a temporary file or is between gate and result
Running(r) == r.pc \notin {"off", "idle", "done", "thrown"}

\* C13: two invocations that overlap in time share no mutable state: they
\* never read, write or delete the same temporary file path, whatever the
\* clock values at which they start.
C13_NoSharedTempPath ==
    \A g \in Invocations : \A h \in Invocations :
        (g # h /\ Running(inv[g]) /\ Running(inv[h])) =>
            inv[g].created \cap inv[h].created = {}

(* --------------------- two calls of the dispatcher ---------------------- *)
\* triggerTranscriptionJobs is called a second time with the same segment
\* list, once; the requests sent to the service so far are kept, the locals of
\* the call start afresh
DispatchAgain ==
    /\ disp.pc = "returned"
    /\ Len(disp.requests) <= Len(disp.segmentUrls)
    /\ disp' = [disp EXCEPT !.pc = "loop", !.pos = 1, !.transcriptionJobs = <<>>]
    /\ UNCHANGED <<clock, tmpFiles, pendingUnlinks, s3objects, inv>>

NextDispatchTwice == DispatchSegment \/ DispatchReturn \/ DispatchAgain \/ Tick

SpecDispatchTwice == InitDispatch /\ [][NextDispatchTwice]_vars

\* C12: every transcription job name built by triggerTranscriptionJobs is
\* unique across all submissions: no two submissions, within one dispatch call
\* or in two dispatch calls at the same clock value for the same segment
\* index, carry the same job name.
C12_JobNamesUnique ==
    \A j \in 1..Len(disp.requests) : \A k \in 1..Len(disp.requests) :
        j # k => disp.requests[j].TranscriptionJobName
                    # disp.requests[k].TranscriptionJobName

\* C14: analyzeAudioFile has deleted its temporary copy of the input before it
\* resolves or rejects, when the probe succeeds and when the download, the
\* write or the probe fails.
C14_AnalyzeCopyGoneWhenSettled ==
    \A h \in Invocations :
        LET r == inv[h]
        IN  /\ r.pc = "gate" => r.analyzePath \notin tmpFiles
            /\ (r.pc = "done" /\ r.result.message = "ffprobe") =>
                    r.analyzePath \notin tmpFiles

\* C15: whenever probe, plan, transcode or publish fails, the failure result
\* of the handler carries the error kind, the index of the failing segment
\* when the failure belongs to a segment, and the underlying cause.
C15_FailureCarriesKindIndexCause ==
    \A h \in Invocations :
        LET r == inv[h]
        IN  ( /\ r.pc = "done"
              /\ r.result.status = "error"
              /\ r.result.message \in {"ffprobe", "ffmpeg", "readFile", "putObject"} ) =>
                /\ "message" \in DOMAIN r.result
                /\ "kind" \in DOMAIN r.result
                /\ r.result.message \in {"ffmpeg", "readFile", "putObject"} =>
                        "index" \in DOMAIN r.result

\* C16: no invocation writes to or deletes the source object: for every source
\* key and segment index the derived segment key differs from the source key,
\* and storage writes are issued only to derived segment keys.
C16_SourceObjectUntouched ==
    /\ \A h \in Invocations :
         \A k \in 1..Len(inv[h].uploads) :
             /\ inv[h].uploads[k].Key # inv[h].event.s3Key
             /\ Len(inv[h].uploads[k].Key) > Len(inv[h].event.s3Key)
    /\ \A o \in s3objects :
         \E h \in Invocations : \E k \in 1..Len(inv[h].uploads) :
             /\ inv[h].uploads[k].outcome = "ok"
             /\ o.Key = inv[h].uploads[k].Key
             /\ o.Bucket = inv[h].event.bucketName
             /\ o.Key # inv[h].event.s3Key
             /\ o.Key = WithoutExtension(inv[h].event.s3Key)
                          \o <<"_","s","e","g","m","e","n","t","_">>
                          \o IndexToString(inv[h].uploads[k].index) \o <<".","m","p","3">>

\* segment 0 of 'meeting.mp3' was written to storage
C16_Witness ==
    \E h \in Invocations :
        /\ inv[h].event.s3Key = MeetingMp3
        /\ Len(inv[h].uploads) >= 1
        /\ inv[h].uploads[1].outcome = "ok"
        /\ s3objects # {}

(* --------------------- splitAudioFile, any duration -------------------- *)
\* splitAudioFile called with any total duration, zero and negative included
InitSplitAny ==
    /\ clock = 0
    /\ tmpFiles = {}
    /\ pendingUnlinks = {}
    /\ s3objects = {}
    /\ \E totalDuration \in ProbedDurations \cup {-d : d \in ProbedDurations} :
         inv = [h \in Invocations |->
                  IF h = 1
                  THEN [Locals("split_get") EXCEPT
                          !.event = [isNull |-> FALSE, s3Key |-> MeetingMp3,
                                     bucketName |-> "bucket"],
                          !.audioInfo = Num(totalDuration)]
                  ELSE Locals("off")]
    /\ disp = NoDispatch

SpecSplitAny == InitSplitAny /\ [][NextSplit]_vars

\* C17: planning with totalDuration <= 0 fails with InvalidDuration (and with
\* maxSegmentLength <= 0 with InvalidConfiguration); no plan, not even an
\* empty one, is returned and no segment is transcoded.
C17_NonPositiveDurationRejected ==
    \A h \in Invocations :
        LET r == inv[h]
        IN  ((~r.audioInfo.nan) /\ r.audioInfo.v <= 0) =>
                /\ r.pc # "upload"
                /\ r.transcodeCalls = <<>>

\* C18: every segment of a split has a recorded duration of at most 12600
\* seconds, and the duration asked of the transcoder is at most 12600 seconds
\* too, so every segment is below the 14400-second ceiling of the service.
C18_SegmentsBelowCeiling ==
    \A h \in Invocations :
        /\ \A k \in 1..Len(inv[h].segments) :
             /\ inv[h].segments[k].duration <= 12600
             /\ inv[h].segments[k].duration < 14400
        /\ \A k \in 1..Len(inv[h].transcodeCalls) :
             /\ inv[h].transcodeCalls[k].duration <= 12600
             /\ inv[h].transcodeCalls[k].duration < 14400

\* a split recorded a first segment of the full 12600 seconds and a second one
C18_Witness ==
    \E h \in Invocations :
        /\ Len(inv[h].segments) >= 2
        /\ inv[h].segments[1].duration = 12600
        /\ inv[h].transcodeCalls[2].duration = 12600

C20_SegmentsInIndexOrder ==
    \A h \in Invocations :
        LET r == inv[h]
        IN  /\ \A k \in 1..Len(r.transcodeCalls) :
                 /\ r.transcodeCalls[k].index = k - 1
                 /\ k > 1 => /\ Len(r.segments) >= k - 1
                             /\ r.segments[k - 1].index = k - 2
            /\ \A k \in 1..Len(r.uploads) :
                 /\ r.uploads[k].index = k - 1
                 /\ k > 1 => /\ Len(r.segmentUrls) >= k - 1
                             /\ r.segmentUrls[k - 1].index = k - 2

\* three segments were transcoded and then uploaded
C20_Witness ==
    \E h \in Invocations :
        /\ Len(inv[h].transcodeCalls) = 3
        /\ Len(inv[h].uploads) = 3
        /\ inv[h].uploads[3].outcome = "ok"

\* every entry of a published list stands for a completed storage write
Published(r, list) ==
    \A k \in 1..Len(list) :
        \E j \in 1..Len(r.uploads) :
            /\ r.uploads[j].outcome = "ok"
            /\ r.uploads[j].index = list[k].index
            /\ r.uploads[j].Key = list[k].key
            /\ list[k].url = [bucket |-> r.uploads[j].Bucket, key |-> r.uploads[j].Key]
            /\ [Bucket |-> r.uploads[j].Bucket, Key |-> r.uploads[j].Key] \in s3objects

\* C21: a segment appears in the published list of uploadSegments only after
\* its storage write has completed successfully; a segment whose write failed
\* or was never attempted is in no list returned to the caller, and an entry
\* once added is not changed afterwards.
C21_PublishedOnlyAfterWrite ==
    /\ [](\A h \in Invocations :
            /\ Published(inv[h], inv[h].segmentUrls)
            /\ Published(inv[h], inv[h].result.segmentUrls)
            /\ Len(inv[h].segmentUrls) =
                 Cardinality({j \in 1..Len(inv[h].uploads) :
                                 inv[h].uploads[j].outcome = "ok"}))
    /\ [][\A h \in Invocations :
            \A k \in 1..Len(inv[h].segmentUrls) :
                /\ Len(inv'[h].segmentUrls) >= k
                /\ inv'[h].segmentUrls[k] = inv[h].segmentUrls[k]]_vars

\* two segments are in the returned list and the upload of the third failed
C21_Witness ==
    \E h \in Invocations :
        /\ Len(inv[h].uploads) = 3
        /\ inv[h].uploads[3].outcome = "putObject"
        /\ Len(inv[h].segmentUrls) = 2

\* C22: whenever the handler returns split-complete, segmentUrls holds exactly
\* N = ceil(originalDuration / 12600) entries with N >= 2, their indices are
\* 0..N-1 in increasing order without gap, and 'segments' equals N.
C22_SplitCompleteHoldsAllSegments ==
    \A h \in Invocations :
        LET res == inv[h].result
            n == Len(res.segmentUrls)
        IN  (inv[h].pc = "done" /\ res.status = "split-complete") =>
                /\ ~res.duration.nan
                /\ n >= 2
                /\ (n - 1) * 12600 < res.duration.v
                /\ res.duration.v <= n * 12600
                /\ res.segments = n
                /\ \A k \in 1..n : res.segmentUrls[k].index = k - 1

\* C23: no segment is uploaded until every segment of the plan has been
\* transcoded successfully: the first storage write of an invocation comes
\* after its last transcode, so a transcode failure at any index leaves
\* storage without any segment object written by that invocation.
C23_UploadsAfterAllTranscodes ==
    \A h \in Invocations :
        LET r == inv[h]
        IN  /\ r.uploads # <<>> =>
                 /\ ~r.numSegments.nan
                 /\ Len(r.transcodeCalls) = r.numSegments.v
                 /\ Len(r.segments) = r.numSegments.v
                 /\ \A k \in 1..Len(r.transcodeCalls) : r.transcodeCalls[k].ok
            /\ (\E k \in 1..Len(r.transcodeCalls) : ~r.transcodeCalls[k].ok) =>
                 /\ r.uploads = <<>>
                 /\ r.segmentUrls = <<>>

\* the first upload of an invocation, made after its three transcodes
C23_Witness ==
    \E h \in Invocations :
        /\ Len(inv[h].transcodeCalls) = 3
        /\ Len(inv[h].uploads) = 1
        /\ inv[h].uploads[1].outcome = "ok"

(* ------------------- the handler when every call completes -------------- *)
\* one invocation entered with a well-formed event for 'meeting.mp3'
InitLive ==
    /\ clock = 0
    /\ tmpFiles = {}
    /\ pendingUnlinks = {}
    /\ s3objects = {}
    /\ inv = [h \in Invocations |->
                IF h = 1
                THEN [Locals("analyze_get") EXCEPT
                        !.event = [isNull |-> FALSE, s3Key |-> MeetingMp3,
                                   bucketName |-> "bucket"]]
                ELSE Locals("off")]
    /\ disp = NoDispatch

\* the awaited steps of the handler after its parameter check
HandlerSteps(h) ==
    \/ AnalyzeGetObject(h)
    \/ AnalyzeWriteFile(h)
    \/ AnalyzeProbe(h)
    \/ Gate(h)
    \/ SplitGetObject(h)
    \/ SplitWriteFile(h)
    \/ SplitSegment(h)
    \/ SplitUnlink(h)
    \/ UploadSegment(h)
    \/ UploadReturn(h)
    \/ CleanupSegment(h)
    \/ HandlerReturn(h)

NextLive == (\E h \in Invocations : HandlerSteps(h)) \/ UnlinkCallback \/ Tick

\* every awaited call settles, and the event loop then runs the continuation
SpecLive ==
    InitLive /\ [][NextLive]_vars /\ \A h \in Invocations : WF_vars(HandlerSteps(h))

\* probe, gate, split, upload, cleanup, result
StageRank(pc) ==
    CASE pc \in {"off", "idle"} -> 0
      [] pc \in {"analyze_get", "analyze_write", "analyze_probe"} -> 1
      [] pc = "gate" -> 2
      [] pc \in {"split_get", "split_write", "split_loop"} -> 3
      [] pc = "upload" -> 4
      [] pc = "cleanup" -> 5
      [] pc = "done" -> 6
      [] OTHER -> 3

\* ceil(duration / 12600); a loop bounded by NaN does not run
LoopBound(duration) ==
    IF duration.nan THEN 0 ELSE CeilDiv(duration.v, 12600)

\* C24: when every storage, probe, transcode and file-system call eventually
\* completes, every invocation eventually reaches a terminal result; its
\* stages only advance (probe, gate, split, upload, cleanup, result), and the
\* segment loops run at most ceil(duration / 12600) iterations.
C24_TerminatesForwardOnly ==
    /\ \A h \in Invocations : (inv[h].pc # "off") ~> (inv[h].pc = "done")
    /\ [][\A h \in Invocations :
            StageRank(inv'[h].pc) >= StageRank(inv[h].pc)]_vars
    /\ [](\A h \in Invocations :
            /\ Len(inv[h].transcodeCalls) <= LoopBound(inv[h].audioInfo)
            /\ Len(inv[h].uploads) <= LoopBound(inv[h].audioInfo)
            /\ inv[h].cleanIdx - 1 <= LoopBound(inv[h].audioInfo))

\* an invocation that went through every stage, three iterations per loop
C24_Witness ==
    \E h \in Invocations :
        /\ inv[h].pc = "done"
        /\ inv[h].result.status = "split-complete"
        /\ Len(inv[h].transcodeCalls) = 3
        /\ Len(inv[h].uploads) = 3
        /\ inv[h].cleanIdx = 4

====
